---- MODULE Spec2Model ----
(***************************************************************************)
(* A model of src/src/ringbuffer.h: the byte ring buffers ringbuffer_spsc  *)
(* and ringbuffer_mpmc, driven by caller threads as in src/unnamed/part_000*)
(* (test_write / test_read).                                               *)
(*                                                                         *)
(* Granularity.  Every load or store of a cursor, every compare-exchange,  *)
(* every mutex or condition-variable operation and every single byte of a  *)
(* memcpy is one step; steps of different threads interleave freely        *)
(* (sequentially consistent interleaving).  The plain uint64_t cursors of  *)
(* ringbuffer_spsc are read by one thread while the other writes them: a   *)
(* racing load returns the value before or after the store, which is what  *)
(* the interleaving gives (all cursor values of the model are far below    *)
(* 2^32, so a torn load would return one of the two as well).              *)
(* assert() is taken as enabled (part_000 relies on assert for its own     *)
(* check): a failed assert aborts the process.                             *)
(***************************************************************************)
EXTENDS Integers, Naturals, Sequences, FiniteSets, TLC

VARIABLES
    proc,       \* "start" (nothing constructed), "running", "aborted"
    variant,    \* which class was constructed: "spsc" or "mpmc" ("none" before)
    buf_size_,  \* ringbuffer_*::buf_size_
    enable_cv_, \* ringbuffer_*::enable_cv_
    buffer_,    \* ringbuffer_*::buffer_ : storage index -> byte
    in_,        \* ringbuffer_spsc::in_ / ringbuffer_mpmc::in_
    out_,       \* ringbuffer_spsc::out_ / ringbuffer_mpmc::out_
    real_in_,   \* ringbuffer_mpmc::real_in_
    real_out_,  \* ringbuffer_mpmc::real_out_
    mtx,        \* mutex name -> the thread holding it, or NoThread
    cv,         \* condition variable name -> the set of threads blocked in wait
    th,         \* thread -> its position and locals (waited: history, the
                \* call found its availability predicate false at least once)
    lens,       \* the lengths the callers pass to write / read
    wdone,      \* history: the writes that returned
    rdone       \* history: the reads that returned, with the bytes they got

vars == <<proc, variant, buf_size_, enable_cv_, buffer_, in_, out_, real_in_,
          real_out_, mtx, cv, th, lens, wdone, rdone>>

-----------------------------------------------------------------------------
(* Bounds of the model. *)

\* capacities are 2^0 .. 2^MaxCapLog
MaxCapLog == 2
\* callers pass lengths up to MaxLen
MaxLen == 3
\* the ringbuffer_spsc writer and reader make at most SpscMaxOps calls each
SpscMaxOps == 2
\* each ringbuffer_mpmc thread makes at most MpmcMaxOps calls
MpmcMaxOps == 1
\* writer threads (ringbuffer_spsc is used by the first one only)
NWriters == 2
\* reader threads (ringbuffer_spsc is used by the first one only)
NReaders == 2

-----------------------------------------------------------------------------
(* Threads, bytes, payloads. *)

Writers == 1..NWriters
Readers == (NWriters + 1)..(NWriters + NReaders)
Threads == Writers \cup Readers
NoThread == 0 - 1

Min(a, b) == IF a <= b THEN a ELSE b

SpscWriter == CHOOSE w \in Writers : \A v \in Writers : w <= v
SpscReader == CHOOSE r \in Readers : \A v \in Readers : r <= v

\* an uninitialised byte (malloc'ed storage, a reader's fresh stack buffer)
Uninit == <<0, 0, 0>>

\* the payload of thread t's k-th write of l bytes: every byte of every write
\* is different, so that any byte delivered to the wrong place shows
Payload(t, k, l) == [i \in 1..l |-> <<t, k, i>>]

\* a reader's destination buffer before anything is copied into it
FreshBuf(l) == [i \in 1..l |-> Uninit]

Pow2(n) == 2 ^ n
Pow2Caps == {Pow2(n) : n \in 0..MaxCapLog}
MaxCap == Pow2(MaxCapLog)

\* what callers pass: one agreed chunk length (test_str.length() in part_000),
\* or any length from 0 to MaxLen, or either of two chunk lengths
UniformLens == {{l} : l \in 1..MaxLen}
AnyLens == {0..MaxLen}
MixedLens == {{l, m} : l, m \in 1..MaxLen}

\* the threads of ringbuffer_mpmc all pass one length, as test_write and
\* test_read do; the two threads of ringbuffer_spsc pass either
LenPolicies(v) == IF v = "mpmc" THEN UniformLens ELSE UniformLens \cup AnyLens

RECURSIVE BitAnd(_, _)
BitAnd(a, b) ==
    IF a = 0 \/ b = 0 THEN 0
    ELSE (a % 2) * (b % 2) + 2 * BitAnd(a \div 2, b \div 2)

\* cursor & (buf_size_ - 1) on uint64_t; for buf_size_ = 0 the mask is 2^64 - 1
mask_index(cursor) ==
    IF buf_size_ = 0 THEN cursor ELSE BitAnd(cursor, buf_size_ - 1)

\* (mutant: the first memcpy stops one byte before the end of the storage)
split_l_mut(cursor, len) == Min(len, buf_size_ - mask_index(cursor) - 1)
\* l = std::min(len, buf_size_ - (cursor & (buf_size_ - 1)))
split_l(cursor, len) == Min(len, buf_size_ - mask_index(cursor))

\* the storage index of byte j (from 0) of the two memcpy calls
copy_index(cursor, len, j) ==
    IF j < split_l(cursor, len) THEN mask_index(cursor) + j
    ELSE j - split_l(cursor, len)

IdleThread(n) ==
    [pc |-> "idle", len |-> 0, expected |-> 0, idx |-> 0, buf |-> <<>>,
     count |-> n, tmp |-> <<>>, waited |-> FALSE]

Mutexes == {"mtx_", "mtx_real_in_", "mtx_real_out_"}
CondVars == {"cv_", "cv_real_in_", "cv_real_out_"}

-----------------------------------------------------------------------------
(* Construction. *)

Init ==
    /\ proc = "start"
    /\ variant = "none"
    /\ buf_size_ = 0
    /\ enable_cv_ = FALSE
    /\ buffer_ = <<>>
    /\ in_ = 0
    /\ out_ = 0
    /\ real_in_ = 0
    /\ real_out_ = 0
    /\ mtx = [m \in Mutexes |-> NoThread]
    /\ cv = [c \in CondVars |-> {}]
    /\ th = [t \in Threads |-> IdleThread(0)]
    /\ lens = {}
    /\ wdone = {}
    /\ rdone = {}

\* ringbuffer_spsc(buf_size, enable_cv) / ringbuffer_mpmc(buf_size, enable_cv):
\* malloc(buf_size), cursors 0, assert(buffer_).  malloc may return NULL
\* (no memory; or, for size 0, by the implementation's choice).
\* The callers agree on the lengths they will pass, one of `policies'.
constructor_lens(v, buf_size, enable_cv, malloc_ok, policies) ==
    /\ proc = "start"
    /\ lens' \in policies
    /\ variant' = v
    /\ buf_size_' = buf_size
    /\ enable_cv_' = enable_cv
    /\ buffer_' = IF malloc_ok THEN [i \in 0..(buf_size - 1) |-> Uninit] ELSE <<>>
    /\ proc' = IF malloc_ok THEN "running" ELSE "aborted"
    /\ UNCHANGED <<in_, out_, real_in_, real_out_, mtx, cv, th, wdone, rdone>>

constructor(v, buf_size, enable_cv, malloc_ok) ==
    constructor_lens(v, buf_size, enable_cv, malloc_ok, LenPolicies(v))

-----------------------------------------------------------------------------
(* Mutex and condition variable primitives, shared by both classes. *)

\* (mutant: the lock is taken whether it is free or not)
Lock_mut(t, m, next) ==
    /\ mtx' = [mtx EXCEPT ![m] = t]
    /\ th' = [th EXCEPT ![t].pc = next]
\* std::unique_lock(m): blocks until m is free
Lock(t, m, next) ==
    /\ mtx[m] = NoThread
    /\ mtx' = [mtx EXCEPT ![m] = t]
    /\ th' = [th EXCEPT ![t].pc = next]

\* condition_variable::wait(lk): releases the mutex and blocks, atomically
CvWait(t, c, m) ==
    /\ mtx' = [mtx EXCEPT ![m] = NoThread]
    /\ cv' = [cv EXCEPT ![c] = @ \cup {t}]
    /\ th' = [th EXCEPT ![t].pc = "sleep"]

\* (mutant: notify_one unblocks nobody)
Woken_mut(c) == {NoThread}
\* whom notify_one on c unblocks: one of the threads blocked in wait on c, if
\* there is any (it then has to take its mutex again), else nobody
Woken(c) == IF cv[c] = {} THEN {NoThread} ELSE cv[c]

-----------------------------------------------------------------------------
(* ringbuffer_spsc *)

\* (mutant: no room check)
can_put_mut(size) == TRUE
\* line 98
can_put(size) == in_ + size <= buf_size_ + out_

\* (mutant: the size is left out)
can_get_mut(size) == in_ >= out_
\* line 103
can_get(size) == in_ >= size + out_

IsSpsc(t) == proc = "running" /\ variant = "spsc"

\* lines 29-34 and 134-139
get_total_in == IF variant = "mpmc" THEN real_in_ ELSE in_
get_total_out == IF variant = "mpmc" THEN real_out_ ELSE out_

\* the caller calls write(buf, len) with a fresh payload
spsc_write_call(t, l) ==
    /\ IsSpsc(t) /\ t = SpscWriter
    /\ th[t].pc = "idle" /\ th[t].count < SpscMaxOps /\ l \in lens
    /\ th' = [th EXCEPT ![t].pc = "entry", ![t].len = l,
                        ![t].buf = Payload(t, th[t].count + 1, l)]
    /\ UNCHANGED <<proc, variant, buf_size_, enable_cv_, buffer_, in_, out_,
                   real_in_, real_out_, mtx, cv, lens, wdone, rdone>>

\* (mutant: no length check)
spsc_write_entry_mut(t) ==
    /\ IsSpsc(t) /\ th[t].pc = "entry"
    /\ th' = [th EXCEPT ![t].pc = IF enable_cv_ THEN "lock" ELSE "spin"]
    /\ UNCHANGED <<proc, variant, buf_size_, enable_cv_, buffer_, in_, out_,
                   real_in_, real_out_, mtx, cv, lens, wdone, rdone>>

\* write, lines 56-60: the length check, then the choice of wait mode
spsc_write_entry(t) ==
    /\ IsSpsc(t) /\ th[t].pc = "entry"
    /\ IF th[t].len > buf_size_
       THEN /\ proc' = "aborted"
            /\ th' = [th EXCEPT ![t].pc = "fatal"]
       ELSE /\ proc' = proc
            /\ th' = [th EXCEPT ![t].pc = IF enable_cv_ THEN "lock" ELSE "spin"]
    /\ UNCHANGED <<variant, buf_size_, enable_cv_, buffer_, in_, out_,
                   real_in_, real_out_, mtx, cv, lens, wdone, rdone>>

\* the caller calls read(buf, len); read has no length check (lines 36-37)
spsc_read_call(t, l) ==
    /\ IsSpsc(t) /\ t = SpscReader
    /\ th[t].pc = "idle" /\ th[t].count < SpscMaxOps /\ l \in lens
    /\ th' = [th EXCEPT ![t].pc = IF enable_cv_ THEN "lock" ELSE "spin",
                        ![t].len = l, ![t].buf = FreshBuf(l)]
    /\ UNCHANGED <<proc, variant, buf_size_, enable_cv_, buffer_, in_, out_,
                   real_in_, real_out_, mtx, cv, lens, wdone, rdone>>

\* lines 39 and 62: auto lk = std::unique_lock(mtx_)
spsc_lock(t) ==
    /\ IsSpsc(t) /\ th[t].pc \in {"lock", "relock"}
    /\ Lock(t, "mtx_", "pred")
    /\ UNCHANGED <<proc, variant, buf_size_, enable_cv_, buffer_, in_, out_,
                   real_in_, real_out_, cv, lens, wdone, rdone>>

spsc_can(t) == IF t \in Writers THEN can_put(th[t].len) ELSE can_get(th[t].len)

\* lines 40-42 and 63-65: cv_.wait(lk, pred) evaluates pred with the lock held
spsc_wait_pred(t) ==
    /\ IsSpsc(t) /\ th[t].pc = "pred"
    /\ th' = [th EXCEPT ![t].pc = IF spsc_can(t) THEN "copy" ELSE "wait",
                        ![t].waited = @ \/ ~spsc_can(t)]
    /\ UNCHANGED <<proc, variant, buf_size_, enable_cv_, buffer_, in_, out_,
                   real_in_, real_out_, mtx, cv, lens, wdone, rdone>>

\* cv_.wait(lk, pred), pred false: wait(lk)
spsc_wait_block(t) ==
    /\ IsSpsc(t) /\ th[t].pc = "wait"
    /\ CvWait(t, "cv_", "mtx_")
    /\ UNCHANGED <<proc, variant, buf_size_, enable_cv_, buffer_, in_, out_,
                   real_in_, real_out_, lens, wdone, rdone>>

\* lines 49-50 and 72-73: while (!can_get(len)) {} / while (!can_put(len)) {}
spsc_spin(t) ==
    /\ IsSpsc(t) /\ th[t].pc = "spin"
    /\ th' = [th EXCEPT ![t].pc = IF spsc_can(t) THEN "copy" ELSE "spin",
                        ![t].waited = @ \/ ~spsc_can(t)]
    /\ UNCHANGED <<proc, variant, buf_size_, enable_cv_, buffer_, in_, out_,
                   real_in_, real_out_, mtx, cv, lens, wdone, rdone>>

\* put, lines 80-82: one byte of the two memcpy calls
spsc_put_copy(t) ==
    /\ IsSpsc(t) /\ t \in Writers /\ th[t].pc = "copy" /\ th[t].idx < th[t].len
    /\ buffer_' = [buffer_ EXCEPT
                     ![copy_index(in_, th[t].len, th[t].idx)] = th[t].buf[th[t].idx + 1]]
    /\ th' = [th EXCEPT ![t].idx = @ + 1]
    /\ UNCHANGED <<proc, variant, buf_size_, enable_cv_, in_, out_,
                   real_in_, real_out_, mtx, cv, lens, wdone, rdone>>

\* get, lines 88-90: one byte of the two memcpy calls
spsc_get_copy(t) ==
    /\ IsSpsc(t) /\ t \in Readers /\ th[t].pc = "copy" /\ th[t].idx < th[t].len
    /\ th' = [th EXCEPT ![t].idx = @ + 1,
                        ![t].buf[th[t].idx + 1] =
                            buffer_[copy_index(out_, th[t].len, th[t].idx)]]
    /\ UNCHANGED <<proc, variant, buf_size_, enable_cv_, buffer_, in_, out_,
                   real_in_, real_out_, mtx, cv, lens, wdone, rdone>>

\* history records of a call that returns: who, its how-manieth call, the
\* cursor value it started at, its length, whether it had to wait
WriteRecord(t, start) ==
    [t |-> t, k |-> th[t].count + 1, start |-> start, len |-> th[t].len,
     waited |-> th[t].waited]
ReadRecord(t, start) ==
    [t |-> t, k |-> th[t].count + 1, start |-> start, len |-> th[t].len,
     waited |-> th[t].waited, data |-> th[t].buf]

\* the call returns to the caller
Return(t) == th' = [th EXCEPT ![t] = IdleThread(th[t].count + 1)]

\* (mutant: only the bytes of the first memcpy are counted)
spsc_put_advance_mut(t) == in_ + split_l(in_, th[t].len)
\* put, line 84: in_ += len
spsc_put_advance(t) == in_ + th[t].len

\* get, line 93: out_ += len
spsc_get_advance(t) == out_ + th[t].len

\* put / get after the copy: the fence and the cursor advance; without the
\* condition variable the call then returns
spsc_advance(t) ==
    /\ IsSpsc(t) /\ th[t].pc = "copy" /\ th[t].idx = th[t].len
    /\ IF t \in Writers
       THEN /\ in_' = spsc_put_advance(t)
            /\ out_' = out_
       ELSE /\ out_' = spsc_get_advance(t)
            /\ in_' = in_
    /\ IF enable_cv_
       THEN /\ th' = [th EXCEPT ![t].pc = "unlock",
                                ![t].expected = IF t \in Writers THEN in_ ELSE out_]
            /\ UNCHANGED <<wdone, rdone>>
       ELSE /\ Return(t)
            /\ wdone' = IF t \in Writers THEN wdone \cup {WriteRecord(t, in_)} ELSE wdone
            /\ rdone' = IF t \in Readers THEN rdone \cup {ReadRecord(t, out_)} ELSE rdone
    /\ UNCHANGED <<proc, variant, buf_size_, enable_cv_, buffer_,
                   real_in_, real_out_, mtx, cv, lens>>

\* lines 45 and 68: the unique_lock goes out of scope
spsc_unlock(t) ==
    /\ IsSpsc(t) /\ th[t].pc = "unlock"
    /\ mtx' = [mtx EXCEPT !["mtx_"] = NoThread]
    /\ th' = [th EXCEPT ![t].pc = "notify"]
    /\ UNCHANGED <<proc, variant, buf_size_, enable_cv_, buffer_, in_, out_,
                   real_in_, real_out_, cv, lens, wdone, rdone>>

\* lines 47 and 70: cv_.notify_one(), then the call returns
spsc_notify(t) ==
    /\ IsSpsc(t) /\ th[t].pc = "notify"
    /\ \E u \in Woken("cv_") :
         /\ cv' = [cv EXCEPT !["cv_"] = @ \ {u}]
         /\ th' = [s \in Threads |->
                     IF s = t THEN IdleThread(th[t].count + 1)
                     ELSE IF s = u THEN [th[s] EXCEPT !.pc = "relock"]
                     ELSE th[s]]
    /\ wdone' = IF t \in Writers
                THEN wdone \cup {WriteRecord(t, th[t].expected)} ELSE wdone
    /\ rdone' = IF t \in Readers
                THEN rdone \cup {ReadRecord(t, th[t].expected)} ELSE rdone
    /\ UNCHANGED <<proc, variant, buf_size_, enable_cv_, buffer_, in_, out_,
                   real_in_, real_out_, mtx, lens>>

\* a thread blocked in condition_variable::wait may wake up without a notify
spurious_wakeup(t) ==
    /\ proc = "running" /\ th[t].pc = "sleep"
    /\ \E c \in CondVars :
         /\ t \in cv[c]
         /\ cv' = [cv EXCEPT ![c] = @ \ {t}]
    /\ th' = [th EXCEPT ![t].pc = "relock"]
    /\ UNCHANGED <<proc, variant, buf_size_, enable_cv_, buffer_, in_, out_,
                   real_in_, real_out_, mtx, lens, wdone, rdone>>

SpscStep(t) ==
    \/ \E l \in 0..MaxLen : spsc_write_call(t, l)
    \/ \E l \in 0..MaxLen : spsc_read_call(t, l)
    \/ spsc_write_entry(t)
    \/ spsc_lock(t)
    \/ spsc_wait_pred(t)
    \/ spsc_wait_block(t)
    \/ spsc_spin(t)
    \/ spsc_put_copy(t)
    \/ spsc_get_copy(t)
    \/ spsc_advance(t)
    \/ spsc_unlock(t)
    \/ spsc_notify(t)

-----------------------------------------------------------------------------
(* ringbuffer_mpmc *)

IsMpmc(t) == proc = "running" /\ variant = "mpmc"

\* the reservation cursor of t's own role and the committed cursor of the other
OwnReserved(t) == IF t \in Writers THEN in_ ELSE out_
OppCommitted(t) == IF t \in Writers THEN real_out_ ELSE real_in_

\* the mutex and condition variable t's role waits with, and the one it signals
WaitMtx(t) == IF t \in Writers THEN "mtx_real_out_" ELSE "mtx_real_in_"
WaitCv(t) == IF t \in Writers THEN "cv_real_out_" ELSE "cv_real_in_"
SignalCv(t) == IF t \in Writers THEN "cv_real_in_" ELSE "cv_real_out_"

\* the caller calls write(buf, len) = put(buf, len) (lines 145-147, test_write)
mpmc_write_call(t, l) ==
    /\ IsMpmc(t) /\ t \in Writers
    /\ th[t].pc = "idle" /\ th[t].count < MpmcMaxOps /\ l \in lens
    /\ th' = [th EXCEPT ![t].pc = "top", ![t].len = l,
                        ![t].buf = Payload(t, th[t].count + 1, l)]
    /\ UNCHANGED <<proc, variant, buf_size_, enable_cv_, buffer_, in_, out_,
                   real_in_, real_out_, mtx, cv, lens, wdone, rdone>>

\* the caller calls read(buf, len) = get(buf, len) (lines 141-143, test_read)
mpmc_read_call(t, l) ==
    /\ IsMpmc(t) /\ t \in Readers
    /\ th[t].pc = "idle" /\ th[t].count < MpmcMaxOps /\ l \in lens
    /\ th' = [th EXCEPT ![t].pc = "top", ![t].len = l, ![t].buf = FreshBuf(l)]
    /\ UNCHANGED <<proc, variant, buf_size_, enable_cv_, buffer_, in_, out_,
                   real_in_, real_out_, mtx, cv, lens, wdone, rdone>>

\* lines 153 and 189: auto lk = std::unique_lock(...), in Blocking mode, at the
\* top of the retry loop or when woken inside wait
mpmc_lock(t) ==
    /\ IsMpmc(t) /\ enable_cv_ /\ th[t].pc \in {"top", "relock"}
    /\ Lock(t, WaitMtx(t), "pred")
    /\ UNCHANGED <<proc, variant, buf_size_, enable_cv_, buffer_, in_, out_,
                   real_in_, real_out_, cv, lens, wdone, rdone>>

\* line 155: in_ + len <= buf_size_ + real_out_
put_room(in, len, real_out) == in + len <= buf_size_ + real_out
\* line 191: real_in_ >= out_ + len
get_avail(real_in, out, len) == real_in >= out + len

mpmc_pred(t, own, opp) ==
    IF t \in Writers THEN put_room(own, th[t].len, opp)
    ELSE get_avail(opp, own, th[t].len)

\* lines 154-156 and 190-192: the wait predicate makes two atomic loads, in an
\* order the language leaves open; this is the first of them
mpmc_pred_first(t) ==
    /\ IsMpmc(t) /\ th[t].pc = "pred"
    /\ \E which \in {"own", "opp"} :
         th' = [th EXCEPT ![t].pc = "pred2",
                          ![t].tmp = <<which, IF which = "own" THEN OwnReserved(t)
                                              ELSE OppCommitted(t)>>]
    /\ UNCHANGED <<proc, variant, buf_size_, enable_cv_, buffer_, in_, out_,
                   real_in_, real_out_, mtx, cv, lens, wdone, rdone>>

\* the second load and the predicate's value: true ends the wait and the lock
\* goes out of scope (lines 157, 193); false calls wait(lk)
mpmc_pred_second(t) ==
    /\ IsMpmc(t) /\ th[t].pc = "pred2"
    /\ LET own == IF th[t].tmp[1] = "own" THEN th[t].tmp[2] ELSE OwnReserved(t)
           opp == IF th[t].tmp[1] = "opp" THEN th[t].tmp[2] ELSE OppCommitted(t)
       IN  IF mpmc_pred(t, own, opp)
           THEN /\ mtx' = [mtx EXCEPT ![WaitMtx(t)] = NoThread]
                /\ th' = [th EXCEPT ![t].pc = "load", ![t].tmp = <<>>]
           ELSE /\ mtx' = mtx
                /\ th' = [th EXCEPT ![t].pc = "wait", ![t].tmp = <<>>,
                                    ![t].waited = TRUE]
    /\ UNCHANGED <<proc, variant, buf_size_, enable_cv_, buffer_, in_, out_,
                   real_in_, real_out_, cv, lens, wdone, rdone>>

\* the predicate was false: wait(lk) releases the mutex and blocks
mpmc_wait_block(t) ==
    /\ IsMpmc(t) /\ th[t].pc = "wait"
    /\ CvWait(t, WaitCv(t), WaitMtx(t))
    /\ UNCHANGED <<proc, variant, buf_size_, enable_cv_, buffer_, in_, out_,
                   real_in_, real_out_, lens, wdone, rdone>>

\* lines 159 and 195: expected = own reservation cursor (in Spinning mode this
\* is the top of the retry loop)
mpmc_load(t) ==
    /\ IsMpmc(t)
    /\ th[t].pc = "load" \/ (th[t].pc = "top" /\ ~enable_cv_)
    /\ th' = [th EXCEPT ![t].pc = "check", ![t].expected = OwnReserved(t)]
    /\ UNCHANGED <<proc, variant, buf_size_, enable_cv_, buffer_, in_, out_,
                   real_in_, real_out_, mtx, cv, lens, wdone, rdone>>

\* (mutant: a chunk that would fill the buffer exactly is refused)
put_full_ge(expected_in, len, real_out) == expected_in + len >= buf_size_ + real_out
\* (mutant: the length is left out of the room check)
put_full_mut(expected_in, len, real_out) == expected_in > buf_size_ + real_out
\* (mutant: the room is measured to the readers' reservation cursor)
put_full_out(expected_in, len, real_out) == expected_in + len > buf_size_ + out_
\* line 161: expected_in + len > buf_size_ + real_out_
put_full(expected_in, len, real_out) == expected_in + len > buf_size_ + real_out

\* (mutant: no check that the data is there)
get_short_mut(real_in, expected_out, len) == FALSE
\* line 197: real_in_ < expected_out + len
get_short(real_in, expected_out, len) == real_in < expected_out + len

\* lines 161 and 197, first operand of ||: load the other role's committed
\* cursor; no room / no data: continue
mpmc_check(t) ==
    /\ IsMpmc(t) /\ th[t].pc = "check"
    /\ LET fail == IF t \in Writers
                   THEN put_full(th[t].expected, th[t].len, real_out_)
                   ELSE get_short(real_in_, th[t].expected, th[t].len)
       IN  th' = [th EXCEPT ![t].pc = IF fail THEN "top" ELSE "cas",
                            ![t].expected = IF fail THEN 0 ELSE @,
                            ![t].waited = @ \/ fail]
    /\ UNCHANGED <<proc, variant, buf_size_, enable_cv_, buffer_, in_, out_,
                   real_in_, real_out_, mtx, cv, lens, wdone, rdone>>

\* compare_exchange_weak(expected, desired) can succeed only when the atomic
\* holds expected (it may also fail then, spuriously)
\* line 162: in_.compare_exchange_weak(expected_in, expected_in + len)
in_cas(current, expected) == current = expected

\* (mutant: a plain store)
out_cas_mut(current, expected) == TRUE
\* line 198: out_.compare_exchange_weak(expected_out, expected_out + len)
out_cas(current, expected) == current = expected

\* lines 162 and 198: the compare-exchange on the own reservation cursor
\* succeeds and reserves [expected, expected + len)
mpmc_reserve(t) ==
    /\ IsMpmc(t) /\ th[t].pc = "cas"
    /\ IF t \in Writers THEN in_cas(in_, th[t].expected)
                         ELSE out_cas(out_, th[t].expected)
    /\ IF t \in Writers
       THEN in_' = th[t].expected + th[t].len /\ out_' = out_
       ELSE out_' = th[t].expected + th[t].len /\ in_' = in_
    /\ th' = [th EXCEPT ![t].pc = "copy"]
    /\ UNCHANGED <<proc, variant, buf_size_, enable_cv_, buffer_,
                   real_in_, real_out_, mtx, cv, lens, wdone, rdone>>

\* lines 162-163 and 198-199: the compare-exchange fails (another thread of
\* the role moved the cursor, or spuriously): continue
mpmc_reserve_fail(t) ==
    /\ IsMpmc(t) /\ th[t].pc = "cas"
    /\ th' = [th EXCEPT ![t].pc = "top", ![t].expected = 0]
    /\ UNCHANGED <<proc, variant, buf_size_, enable_cv_, buffer_, in_, out_,
                   real_in_, real_out_, mtx, cv, lens, wdone, rdone>>

\* put, lines 166-169: one byte of the two memcpy calls
mpmc_put_copy(t) ==
    /\ IsMpmc(t) /\ t \in Writers /\ th[t].pc = "copy" /\ th[t].idx < th[t].len
    /\ buffer_' = [buffer_ EXCEPT
                     ![copy_index(th[t].expected, th[t].len, th[t].idx)] =
                         th[t].buf[th[t].idx + 1]]
    /\ th' = [th EXCEPT ![t].idx = @ + 1]
    /\ UNCHANGED <<proc, variant, buf_size_, enable_cv_, in_, out_,
                   real_in_, real_out_, mtx, cv, lens, wdone, rdone>>

\* (mutant: the read clears the storage byte it has taken)
mpmc_get_copy_mut(t) ==
    /\ IsMpmc(t) /\ t \in Readers /\ th[t].pc = "copy" /\ th[t].idx < th[t].len
    /\ th' = [th EXCEPT ![t].idx = @ + 1,
                        ![t].buf[th[t].idx + 1] =
                            buffer_[copy_index(th[t].expected, th[t].len, th[t].idx)]]
    /\ buffer_' = [buffer_ EXCEPT
                     ![copy_index(th[t].expected, th[t].len, th[t].idx)] = Uninit]
    /\ UNCHANGED <<proc, variant, buf_size_, enable_cv_, in_, out_,
                   real_in_, real_out_, mtx, cv, lens, wdone, rdone>>
\* get, lines 202-205: one byte of the two memcpy calls
mpmc_get_copy(t) ==
    /\ IsMpmc(t) /\ t \in Readers /\ th[t].pc = "copy" /\ th[t].idx < th[t].len
    /\ th' = [th EXCEPT ![t].idx = @ + 1,
                        ![t].buf[th[t].idx + 1] =
                            buffer_[copy_index(th[t].expected, th[t].len, th[t].idx)]]
    /\ UNCHANGED <<proc, variant, buf_size_, enable_cv_, buffer_, in_, out_,
                   real_in_, real_out_, mtx, cv, lens, wdone, rdone>>

\* the compare-exchange on the committed cursor can succeed only when it
\* holds the start of the thread's own reservation
\* (mutant: a plain store)
real_in_cas_mut(current, expected) == TRUE
\* line 173: real_in_.compare_exchange_weak(expected_in, expected_in + len)
real_in_cas(current, expected) == current = expected

\* (mutant: a plain store)
real_out_cas_mut(current, expected) == TRUE
\* line 209: real_out_.compare_exchange_weak(expected_out, expected_out + len)
real_out_cas(current, expected) == current = expected

\* lines 172-175 and 208-211: the commit loop's compare-exchange succeeds;
\* in Spinning mode the call then returns
mpmc_commit(t) ==
    /\ IsMpmc(t) /\ th[t].pc = "copy" /\ th[t].idx = th[t].len
    /\ IF t \in Writers THEN real_in_cas(real_in_, th[t].expected)
                         ELSE real_out_cas(real_out_, th[t].expected)
    /\ IF t \in Writers
       THEN real_in_' = th[t].expected + th[t].len /\ real_out_' = real_out_
       ELSE real_out_' = th[t].expected + th[t].len /\ real_in_' = real_in_
    /\ IF enable_cv_
       THEN /\ th' = [th EXCEPT ![t].pc = "notify"]
            /\ UNCHANGED <<wdone, rdone>>
       ELSE /\ Return(t)
            /\ wdone' = IF t \in Writers
                        THEN wdone \cup {WriteRecord(t, th[t].expected)} ELSE wdone
            /\ rdone' = IF t \in Readers
                        THEN rdone \cup {ReadRecord(t, th[t].expected)} ELSE rdone
    /\ UNCHANGED <<proc, variant, buf_size_, enable_cv_, buffer_, in_, out_,
                   mtx, cv, lens>>

\* lines 173-175 and 209-211: the compare-exchange fails (an earlier
\* reservation has not committed yet, or spuriously); expected is restored
\* and the loop tries again
mpmc_commit_retry(t) ==
    /\ IsMpmc(t) /\ th[t].pc = "copy" /\ th[t].idx = th[t].len
    /\ UNCHANGED vars

\* lines 177-181 and 213-217: notify_one on the other role's condition
\* variable, then the call returns
mpmc_notify(t) ==
    /\ IsMpmc(t) /\ th[t].pc = "notify"
    /\ \E u \in Woken(SignalCv(t)) :
         /\ cv' = [cv EXCEPT ![SignalCv(t)] = @ \ {u}]
         /\ th' = [s \in Threads |->
                     IF s = t THEN IdleThread(th[t].count + 1)
                     ELSE IF s = u THEN [th[s] EXCEPT !.pc = "relock"]
                     ELSE th[s]]
    /\ wdone' = IF t \in Writers
                THEN wdone \cup {WriteRecord(t, th[t].expected)} ELSE wdone
    /\ rdone' = IF t \in Readers
                THEN rdone \cup {ReadRecord(t, th[t].expected)} ELSE rdone
    /\ UNCHANGED <<proc, variant, buf_size_, enable_cv_, buffer_, in_, out_,
                   real_in_, real_out_, mtx, lens>>

MpmcStep(t) ==
    \/ \E l \in 0..MaxLen : mpmc_write_call(t, l)
    \/ \E l \in 0..MaxLen : mpmc_read_call(t, l)
    \/ mpmc_lock(t)
    \/ mpmc_pred_first(t)
    \/ mpmc_pred_second(t)
    \/ mpmc_wait_block(t)
    \/ mpmc_load(t)
    \/ mpmc_check(t)
    \/ mpmc_reserve(t)
    \/ mpmc_reserve_fail(t)
    \/ mpmc_put_copy(t)
    \/ mpmc_get_copy(t)
    \/ mpmc_commit(t)
    \/ mpmc_commit_retry(t)
    \/ mpmc_notify(t)

-----------------------------------------------------------------------------
(* The whole program. *)

\* the program constructs one buffer: of which class, of what capacity, in
\* which wait mode
Construct(variants, caps) ==
    \E v \in variants, size \in caps, e \in BOOLEAN, ok \in BOOLEAN :
        constructor(v, size, e, ok)

Variants == {"spsc", "mpmc"}

Next ==
    \/ Construct(Variants, Pow2Caps)
    \/ \E t \in Threads : SpscStep(t)
    \/ \E t \in Threads : MpmcStep(t)
    \/ \E t \in Threads : spurious_wakeup(t)

Spec == Init /\ [][Next]_vars

\* the program that uses a ringbuffer_spsc
NextSpsc ==
    \/ Construct({"spsc"}, Pow2Caps)
    \/ \E t \in Threads : SpscStep(t)
    \/ \E t \in Threads : spurious_wakeup(t)

SpecSpsc == Init /\ [][NextSpsc]_vars

\* the same program when the caller may pass any capacity to the constructor
AllCaps == 0..MaxCap

NextAnyCap ==
    \/ Construct(Variants, AllCaps)
    \/ \E t \in Threads : SpscStep(t)
    \/ \E t \in Threads : MpmcStep(t)
    \/ \E t \in Threads : spurious_wakeup(t)

SpecAnyCap == Init /\ [][NextAnyCap]_vars

\* the program constructs one buffer, its callers passing lengths of one of
\* `policies'
ConstructFor(variants, caps, modes, policies) ==
    \E v \in variants, size \in caps, e \in modes, ok \in BOOLEAN :
        constructor_lens(v, size, e, ok, policies)

\* the program that uses a ringbuffer_mpmc: in Spinning mode its threads pass
\* chunks of up to two different lengths, in Blocking mode of one length
NextMpmcMixed ==
    \/ ConstructFor({"mpmc"}, Pow2Caps, {FALSE}, MixedLens)
    \/ ConstructFor({"mpmc"}, Pow2Caps, {TRUE}, UniformLens)
    \/ \E t \in Threads : MpmcStep(t)
    \/ \E t \in Threads : spurious_wakeup(t)

SpecMpmcMixed == Init /\ [][NextMpmcMixed]_vars

\* Scheduling of the program that uses a ringbuffer_spsc: a thread that can
\* take a step again and again (its caller's next call; a step of the call; the
\* acquisition of mtx_, which is free again and again) eventually takes it.
\* Nothing is assumed about spurious wakeups.
SpscFairness ==
    /\ SF_vars(SpscStep(SpscWriter))
    /\ SF_vars(SpscStep(SpscReader))

SpecSpscFair == Init /\ [][NextSpsc]_vars /\ SpscFairness

\* the steps of ringbuffer_mpmc in Spinning mode
MpmcSpinStep(t) ==
    \/ \E l \in 0..MaxLen : mpmc_write_call(t, l)
    \/ \E l \in 0..MaxLen : mpmc_read_call(t, l)
    \/ mpmc_load(t)
    \/ mpmc_check(t)
    \/ mpmc_reserve(t)
    \/ mpmc_reserve_fail(t)
    \/ mpmc_put_copy(t)
    \/ mpmc_get_copy(t)
    \/ mpmc_commit(t)
    \/ mpmc_commit_retry(t)

\* the program that uses a ringbuffer_mpmc in Spinning mode, its threads
\* passing one chunk length
NextMpmcSpin ==
    \/ ConstructFor({"mpmc"}, Pow2Caps, {FALSE}, UniformLens)
    \/ \E t \in Threads : MpmcSpinStep(t)

\* Scheduling: every thread keeps running (weak fairness on its steps), and a
\* compare_exchange_weak that could succeed again and again does not fail
\* spuriously for ever.
MpmcSpinFairness ==
    \A t \in Threads :
        /\ WF_vars(MpmcSpinStep(t))
        /\ SF_vars(mpmc_reserve(t))

SpecMpmcSpinFair == Init /\ [][NextMpmcSpin]_vars /\ MpmcSpinFairness

-----------------------------------------------------------------------------
(* What the histories and the threads' positions say. *)

\* t has passed its wait: it is copying, or has copied and advanced / committed
PastWait(t) == th[t].pc \in {"copy", "unlock", "notify"}

\* t has advanced (spsc) or committed (mpmc) its cursor and not yet returned
Published(t) == th[t].pc \in {"unlock", "notify"}

\* the cursor value the call of t in flight started at
StartOf(t) ==
    IF variant = "spsc" /\ th[t].pc = "copy"
    THEN (IF t \in Writers THEN in_ ELSE out_)
    ELSE th[t].expected

\* the writes / reads whose cursor advance or commit has happened
PublishedWrites ==
    wdone \cup {WriteRecord(t, th[t].expected) : t \in {u \in Writers : Published(u)}}
PublishedReads ==
    rdone \cup {ReadRecord(t, th[t].expected) : t \in {u \in Readers : Published(u)}}

RECURSIVE SumLen(_)
SumLen(S) ==
    IF S = {} THEN 0
    ELSE LET x == CHOOSE y \in S : TRUE IN x.len + SumLen(S \ {x})

AllIdle == \A t \in Threads : th[t].pc = "idle"

IsPow2(n) == n > 0 /\ BitAnd(n, n - 1) = 0

-----------------------------------------------------------------------------
(* C1 *)

\* the spsc writer's / reader's j-th call has started, and its length
WriteStarted(j) ==
    \/ \E w \in wdone : w.k = j
    \/ th[SpscWriter].pc # "idle" /\ th[SpscWriter].count + 1 = j
WriteLen(j) ==
    IF \E w \in wdone : w.k = j THEN (CHOOSE w \in wdone : w.k = j).len
    ELSE th[SpscWriter].len
ReadStarted(j) ==
    \/ \E r \in rdone : r.k = j
    \/ th[SpscReader].pc # "idle" /\ th[SpscReader].count + 1 = j
ReadLen(j) ==
    IF \E r \in rdone : r.k = j THEN (CHOOSE r \in rdone : r.k = j).len
    ELSE th[SpscReader].len

\* the reader has asked for the same chunk lengths, in order, as the writer
\* has written, up to chunk k
SameChunkLens(k) ==
    \A j \in 1..k : WriteStarted(j) /\ ReadStarted(j) /\ WriteLen(j) = ReadLen(j)

\* C1: ringbuffer_spsc, one writer and one reader, Spinning and Blocking: when
\* the reader reads the chunk lengths the writer writes, in order, every
\* completed read holds exactly the bytes of the corresponding write (and so
\* does the part of a read copied so far); the reader copies only bytes of
\* writes that were fully copied and published (out_ + len <= in_ while it
\* copies), and the writer overwrites only storage whose bytes were read
\* (in_ + len <= out_ + buf_size_ while it copies).
SpscRoundTrip ==
    variant = "spsc" =>
        /\ \A r \in rdone :
             SameChunkLens(r.k) => r.data = Payload(SpscWriter, r.k, r.len)
        /\ LET t == SpscReader IN
             PastWait(t) /\ SameChunkLens(th[t].count + 1) =>
                \A i \in 1..th[t].idx :
                    th[t].buf[i] = <<SpscWriter, th[t].count + 1, i>>
        /\ LET t == SpscReader IN
             th[t].pc = "copy" => out_ + th[t].len <= in_
        /\ LET t == SpscWriter IN
             th[t].pc = "copy" => in_ + th[t].len <= out_ + buf_size_

\* the second chunk, of at least two bytes, was written across the end of the
\* storage and read back
SpscRoundTripWitness ==
    /\ variant = "spsc"
    /\ \E r \in rdone :
         /\ r.k > 1 /\ r.len > 1
         /\ SameChunkLens(r.k)
         /\ mask_index(r.start) + r.len > buf_size_
         /\ r.data = Payload(SpscWriter, r.k, r.len)

-----------------------------------------------------------------------------
(* C2 *)

\* C2: ringbuffer_mpmc, NWriters writers and NReaders readers, one chunk
\* length: every completed read holds exactly the bytes of one single write,
\* the one that reserved the same range, and that write's commit had happened;
\* the same holds of every byte a reader in flight has copied so far.
MpmcNoCorruption ==
    variant = "mpmc" =>
        /\ \A r \in rdone :
             \E w \in PublishedWrites :
                /\ w.start = r.start /\ w.len = r.len
                /\ r.data = Payload(w.t, w.k, w.len)
        /\ \A t \in Readers :
             PastWait(t) =>
                \E w \in PublishedWrites :
                   /\ w.start = th[t].expected /\ w.len = th[t].len
                   /\ \A i \in 1..th[t].idx : th[t].buf[i] = <<w.t, w.k, i>>

\* two readers have each read a chunk, one of them a chunk that wraps (length
\* 3 in a buffer of 4), and the chunks went in in the other order than the
\* writers are numbered
MpmcNoCorruptionWitness ==
    /\ variant = "mpmc" /\ NWriters > 1 /\ NReaders > 1
    /\ \E a \in rdone, b \in rdone :
         /\ a.t # b.t
         /\ a.start < b.start
         /\ mask_index(b.start) + b.len > buf_size_
         /\ a.data[1][1] > b.data[1][1]

-----------------------------------------------------------------------------
(* C3 *)

\* the ranges reserved by reads: those that returned and those in flight
ReservedReads ==
    {<<r.t, r.start, r.len>> : r \in rdone}
        \cup {<<t, th[t].expected, th[t].len>> : t \in {u \in Readers : PastWait(u)}}

RangeOf(x) == x[2]..(x[2] + x[3] - 1)

\* C3: ringbuffer_mpmc, one chunk length: the ranges reserved by reads are
\* pairwise disjoint and tile [0, out_); no two reads return the same chunk;
\* there are never more chunks read than written, and once every writer has
\* written its MpmcMaxOps chunks and all of them are read, exactly
\* NWriters * MpmcMaxOps chunks were read, each written chunk once.
MpmcNoDoubleDelivery ==
    variant = "mpmc" =>
        /\ \A a \in ReservedReads, b \in ReservedReads :
             a # b => RangeOf(a) \cap RangeOf(b) = {}
        /\ UNION {RangeOf(x) : x \in ReservedReads} = 0..(out_ - 1)
        /\ \A a \in rdone, b \in rdone : a # b => a.data # b.data
        /\ Cardinality(rdone) <= Cardinality(PublishedWrites)
        /\ (/\ AllIdle
            /\ \A w \in Writers : th[w].count = MpmcMaxOps
            /\ real_out_ = real_in_)
           => /\ Cardinality(rdone) = NWriters * MpmcMaxOps
              /\ {r.data : r \in rdone} =
                    {Payload(w.t, w.k, w.len) : w \in wdone}

\* every writer has written its chunks and all were read
MpmcNoDoubleDeliveryWitness ==
    /\ variant = "mpmc" /\ AllIdle
    /\ Cardinality(rdone) = NWriters * MpmcMaxOps
    /\ Cardinality({r.t : r \in rdone}) > 1

-----------------------------------------------------------------------------
(* C4 *)

\* C4: in every state of either class,
\* total_bytes_read <= total_bytes_written <= total_bytes_read + capacity.
Conservation ==
    /\ get_total_out <= get_total_in
    /\ get_total_in <= get_total_out + buf_size_

\* a full ringbuffer_mpmc after bytes were read: written = read + capacity
ConservationWitness ==
    /\ variant = "mpmc" /\ proc = "running"
    /\ get_total_out > 0
    /\ get_total_in = get_total_out + buf_size_

-----------------------------------------------------------------------------
(* C5 *)

\* C5: either class, either wait mode: a read that has passed its wait or
\* returned was supplied all its bytes by published writes (start + len <=
\* total_bytes_written), and a write that has passed its wait or returned was
\* given its room by published reads (start + len <= total_bytes_read +
\* capacity); so a call that found too little cannot return before then.
BlockingCorrect ==
    /\ \A r \in rdone : r.start + r.len <= get_total_in
    /\ \A w \in wdone : w.start + w.len <= get_total_out + buf_size_
    /\ \A t \in Readers : PastWait(t) => StartOf(t) + th[t].len <= get_total_in
    /\ \A t \in Writers :
         PastWait(t) => StartOf(t) + th[t].len <= get_total_out + buf_size_

\* Blocking mode: a read that found too few bytes and a write that found too
\* little room have both returned
BlockingCorrectWitness ==
    /\ enable_cv_
    /\ \E r \in rdone : r.waited /\ r.len > 0
    /\ \E w \in wdone : w.waited /\ w.len > 0

-----------------------------------------------------------------------------
(* C6 *)

\* C6: no step of either class lowers total_bytes_written or total_bytes_read
\* (in_ / out_ of ringbuffer_spsc, real_in_ / real_out_ of ringbuffer_mpmc).
CountersMonotonic ==
    [][/\ get_total_in' >= get_total_in
       /\ get_total_out' >= get_total_out]_vars

\* a ringbuffer_mpmc thread has finished its copy while an earlier reservation
\* has not committed: a plain store here would move the counter past it
CountersMonotonicWitness ==
    /\ variant = "mpmc"
    /\ \E t \in Readers :
         /\ th[t].pc = "copy" /\ th[t].idx = th[t].len
         /\ real_out_ < th[t].expected

-----------------------------------------------------------------------------
(* C7 *)

\* C7: total_bytes_written is the sum of the lengths of the writes whose
\* advance / commit has happened, and total_bytes_read that of the reads; with
\* no call in flight these are the calls that returned.  For ringbuffer_mpmc
\* the reserved but uncommitted bytes are not in the counter.
CountersExact ==
    /\ get_total_in = SumLen(PublishedWrites)
    /\ get_total_out = SumLen(PublishedReads)
    /\ AllIdle => /\ get_total_in = SumLen(wdone)
                  /\ get_total_out = SumLen(rdone)

\* Blocking mode, nothing in flight: one write of several bytes that wrapped
\* and one read of as many returned the same bytes, after an earlier chunk
CountersExactWitness ==
    /\ enable_cv_ /\ AllIdle /\ proc = "running"
    /\ \E w \in wdone, r \in rdone :
         /\ w.len > 1 /\ w.len = r.len /\ w.start = r.start
         /\ mask_index(w.start) + w.len > buf_size_
         /\ r.data = Payload(w.t, w.k, w.len)
         /\ get_total_in = w.start + w.len
         /\ get_total_out = get_total_in

-----------------------------------------------------------------------------
(* C8 *)

\* C8: ringbuffer_spsc::write with len > buf_size_: the step the call takes
\* from its entry is the fatal one (diagnostic, abort), before any wait, and
\* it changes neither in_ nor out_ nor the storage.
SpscOversizeWriteFatal ==
    [][\A t \in Writers :
          (/\ variant = "spsc"
           /\ th[t].pc = "entry" /\ th[t].len > buf_size_
           /\ th'[t] # th[t])
          => /\ th'[t].pc = "fatal" /\ proc' = "aborted"
             /\ ~th'[t].waited
             /\ in_' = in_ /\ out_' = out_ /\ buffer_' = buffer_]_vars

\* the second write was oversize and aborted the process; the first chunk is
\* still in the storage
SpscOversizeWriteFatalWitness ==
    /\ variant = "spsc" /\ proc = "aborted"
    /\ th[SpscWriter].pc = "fatal" /\ th[SpscWriter].len > buf_size_
    /\ in_ > 0
    /\ \E i \in DOMAIN buffer_ : buffer_[i] # Uninit

-----------------------------------------------------------------------------
(* C9 *)

\* C9: a call of ringbuffer_mpmc::write, ringbuffer_mpmc::read or
\* ringbuffer_spsc::read with len > buf_size_ ends fatally: it never finds its
\* availability predicate false and goes on to wait or retry.
OversizeCallFatal ==
    \A t \in Threads :
        (/\ th[t].pc # "idle" /\ th[t].len > buf_size_
         /\ ~(variant = "spsc" /\ t \in Writers))
        => ~th[t].waited

-----------------------------------------------------------------------------
(* C10 *)

\* C10: a buffer that is in use was constructed with a capacity that is a
\* power of two (greater than zero).
CapacityValidated == proc = "running" => IsPow2(buf_size_)

-----------------------------------------------------------------------------
(* C11 *)

\* C11: ringbuffer_mpmc, any interleaving of NWriters writers and NReaders
\* readers, in Spinning mode with chunks of up to two different lengths (also
\* above the capacity), in Blocking mode with one chunk length:
\* real_out_ <= out_ <= real_in_ <= in_ <= real_out_ + buf_size_ in every
\* state; so a writer's reservation never passes the committed reads plus the
\* capacity and a reader's never passes the committed writes, although the
\* check loads the other role's committed cursor apart from the
\* compare-exchange on the own reservation cursor.
MpmcCursorChain ==
    variant = "mpmc" =>
        /\ real_out_ <= out_
        /\ out_ <= real_in_
        /\ real_in_ <= in_
        /\ in_ <= real_out_ + buf_size_

\* chunks of different lengths; a writer and a reader each stand before their
\* compare-exchange with a reservation cursor that another thread of their
\* role has moved since, and that reader holds an uncommitted reservation
MpmcCursorChainWitness ==
    /\ variant = "mpmc" /\ Cardinality(lens) > 1
    /\ \E t \in Writers : th[t].pc = "cas" /\ th[t].expected # in_
    /\ \E t \in Readers : th[t].pc = "cas" /\ th[t].expected # out_
    /\ real_out_ < out_

-----------------------------------------------------------------------------
(* C12 *)

\* the cursor positions a record covers
Positions(x) == x.start..(x.start + x.len - 1)

\* the records of S cover exactly the positions below n, none twice
Tiles(S, n) ==
    /\ \A a \in S, b \in S : a # b => Positions(a) \cap Positions(b) = {}
    /\ UNION {Positions(x) : x \in S} = 0..(n - 1)

\* C12: ringbuffer_mpmc: the committed writes cover exactly the positions
\* below real_in_ and the committed reads those below real_out_, without a
\* gap; a reservation that has not committed starts at or above the committed
\* cursor, also when its copy has finished before an earlier one's; and every
\* position from real_out_ up to real_in_ holds in the storage the byte of the
\* write that covers it.
MpmcCommitOrder ==
    variant = "mpmc" =>
        /\ Tiles(PublishedWrites, real_in_)
        /\ Tiles(PublishedReads, real_out_)
        /\ \A t \in Writers : th[t].pc = "copy" => th[t].expected >= real_in_
        /\ \A t \in Readers : th[t].pc = "copy" => th[t].expected >= real_out_
        /\ \A w \in PublishedWrites :
             \A i \in 1..w.len :
                w.start + i - 1 >= real_out_ =>
                    buffer_[mask_index(w.start + i - 1)] = <<w.t, w.k, i>>

\* a writer has finished its copy and cannot commit: the writer of the
\* reservation before it is still copying
MpmcCommitOrderWitness ==
    /\ variant = "mpmc"
    /\ \E t \in Writers, u \in Writers :
         /\ th[t].pc = "copy" /\ th[t].idx = th[t].len
         /\ th[u].pc = "copy" /\ th[u].idx < th[u].len
         /\ th[u].expected = real_in_
         /\ th[t].expected = real_in_ + th[u].len

-----------------------------------------------------------------------------
(* C13 *)

\* t holds a reservation it has not committed: it is in, or just past, memcpy
InFlight(t) == th[t].pc = "copy"

\* the storage bytes the two memcpy calls of t touch
IndexSet(t) ==
    {copy_index(th[t].expected, th[t].len, j) : j \in 0..(th[t].len - 1)}

\* C13: ringbuffer_mpmc: of the operations that have reserved and not yet
\* committed, no two writers touch the same storage byte, and no writer
\* touches a byte that a reader touches.
MpmcRaceFree ==
    variant = "mpmc" =>
        \A t \in Writers, u \in Threads :
            (t # u /\ InFlight(t) /\ InFlight(u))
                => IndexSet(t) \cap IndexSet(u) = {}

\* a full buffer: a reader and a writer are both in the middle of their
\* memcpy, the writer's range wrapped around to end where the reader's begins
MpmcRaceFreeWitness ==
    /\ variant = "mpmc"
    /\ in_ = real_out_ + buf_size_
    /\ \E t \in Writers, u \in Readers :
         /\ InFlight(t) /\ th[t].idx > 0 /\ th[t].idx < th[t].len
         /\ InFlight(u) /\ th[u].idx > 0 /\ th[u].idx < th[u].len
         /\ th[t].expected > th[u].expected

-----------------------------------------------------------------------------
(* C14 *)

\* the wait predicate of t's role (lines 155 and 191) on the current cursors
WaitPredicate(t) == mpmc_pred(t, OwnReserved(t), OppCommitted(t))

\* t is blocked inside condition_variable::wait
Asleep(t) == th[t].pc = "sleep"

\* t has returned from the last call its caller makes
Finished(t) == th[t].pc = "idle" /\ th[t].count = MpmcMaxOps

\* C14: ringbuffer_mpmc in Blocking mode, one chunk length L <= buf_size_: no
\* wakeup is lost, so the program never reaches a state where a thread is
\* asleep in its condition wait although its wait predicate is true, while
\* every other thread is asleep in a condition wait too or has returned from
\* its last call (nobody is left who would notify).
NoLostWakeup ==
    (variant = "mpmc" /\ enable_cv_) =>
        ~ \E t \in Threads :
            /\ Asleep(t) /\ th[t].len <= buf_size_ /\ WaitPredicate(t)
            /\ \A u \in Threads : Asleep(u) \/ Finished(u)

-----------------------------------------------------------------------------
(* C15 *)

\* the callers of ringbuffer_spsc pass one chunk length, which fits
SpscUniformFit ==
    /\ variant = "spsc" /\ proc = "running"
    /\ Cardinality(lens) = 1
    /\ \A l \in lens : l <= buf_size_

\* C15: ringbuffer_spsc in Blocking mode, a writer and a reader that pass the
\* same chunk length L <= buf_size_, scheduled fairly: every write and every
\* read that has started eventually returns, and the two threads are never
\* both asleep in cv_.wait.
SpscBlockingProgress ==
    /\ \A t \in {SpscWriter, SpscReader} :
          (SpscUniformFit /\ enable_cv_ /\ th[t].pc # "idle")
              ~> (th[t].pc = "idle")
    /\ []((SpscUniformFit /\ enable_cv_)
             => ~(Asleep(SpscWriter) /\ Asleep(SpscReader)))

\* both threads have returned from all their calls, after a write and a read
\* had each been asleep in cv_.wait (the full and the empty buffer)
SpscBlockingProgressWitness ==
    /\ SpscUniformFit /\ enable_cv_
    /\ th[SpscWriter].pc = "idle" /\ th[SpscWriter].count = SpscMaxOps
    /\ th[SpscReader].pc = "idle" /\ th[SpscReader].count = SpscMaxOps
    /\ \E w \in wdone : w.waited
    /\ \E r \in rdone : r.waited

-----------------------------------------------------------------------------
(* C16 *)

\* the threads of ringbuffer_mpmc pass one chunk length, which fits
MpmcUniformFit ==
    /\ variant = "mpmc" /\ proc = "running"
    /\ Cardinality(lens) = 1
    /\ \A l \in lens : l <= buf_size_

\* the calls that have returned
Completed == Cardinality(wdone) + Cardinality(rdone)

\* no writer could reserve a chunk now, and no reader could
NobodyCanReserve ==
    \A l \in lens : put_full(in_, l, real_out_) /\ get_short(real_in_, out_, l)

-----------------------------------------------------------------------------
(* C17 *)

\* t is inside the scope of its unique_lock (lines 39-45, 62-68): evaluating
\* the predicate, about to block in wait, copying, or past the cursor advance
InLockScope(t) == th[t].pc \in {"pred", "wait", "copy", "unlock"}

\* the other thread of ringbuffer_spsc
Partner(t) == IF t = SpscWriter THEN SpscReader ELSE SpscWriter

-----------------------------------------------------------------------------
(* C18 *)

\* the storage byte of position c + i
ModIndex(c, i) == (c + i) % buf_size_

\* t copies one byte in this step
CopiesByte(t) == th[t].pc = "copy" /\ th'[t].idx = th[t].idx + 1

\* C18: both classes, capacities 2^0 .. 2^MaxCapLog, every cursor value and
\* length the program reaches: the two memcpy calls, split at
\* l = min(len, buf_size_ - (c mod buf_size_)), touch byte i of the caller's
\* buffer together with storage byte (c + i) mod buf_size_; a write's copy
\* step stores buf[i] there and changes nothing else of the storage, and the
\* bytes it has stored stay until it advances or commits; a read's copy step
\* takes buf[i] from there and changes no storage byte; nothing but a write's
\* copy step changes the storage.
WrapCopy ==
    /\ [](\A t \in Threads :
            th[t].pc = "copy" =>
                LET c == StartOf(t) IN
                /\ th[t].len <= buf_size_
                /\ split_l(c, th[t].len) = Min(th[t].len, buf_size_ - (c % buf_size_))
                /\ \A j \in 0..(th[t].len - 1) :
                      copy_index(c, th[t].len, j) = ModIndex(c, j)
                /\ \A j \in 0..(th[t].idx - 1) :
                      th[t].buf[j + 1] = buffer_[ModIndex(c, j)])
    /\ [][/\ \A t \in Writers :
               CopiesByte(t) =>
                  /\ buffer_' = [buffer_ EXCEPT
                                   ![ModIndex(StartOf(t), th[t].idx)] =
                                       th[t].buf[th[t].idx + 1]]
                  /\ th'[t].buf = th[t].buf
          /\ \A t \in Readers :
               CopiesByte(t) =>
                  /\ buffer_' = buffer_
                  /\ th'[t].buf = [th[t].buf EXCEPT
                                     ![th[t].idx + 1] =
                                         buffer_[ModIndex(StartOf(t), th[t].idx)]]
          /\ buffer_' # buffer_ =>
               (proc = "start" \/ \E t \in Writers : CopiesByte(t))]_vars

\* a ringbuffer_mpmc reader has copied all the bytes of a chunk that was
\* written across the end of the storage: its first memcpy took the bytes up
\* to the end, its second the rest from offset 0
WrapCopyWitness ==
    /\ variant = "mpmc"
    /\ \E t \in Readers :
         /\ th[t].pc = "copy" /\ th[t].idx = th[t].len /\ th[t].len > 1
         /\ mask_index(th[t].expected) + th[t].len > buf_size_
         /\ split_l(th[t].expected, th[t].len) < th[t].len
         /\ \E w \in PublishedWrites :
              /\ w.start = th[t].expected
              /\ th[t].buf = Payload(w.t, w.k, w.len)

-----------------------------------------------------------------------------
(* C19 *)

\* this step is a step of t's own call (not t being woken by another thread)
Steps(t) ==
    /\ th'[t] # th[t]
    /\ ~(th[t].pc = "sleep" /\ th'[t].pc = "relock")

\* C19: in either class no step of a write changes out_ or real_out_, and no
\* step of a read changes in_, real_in_ or the storage; conversely a cursor or
\* the storage changes only in a step of the role that owns it.  In
\* ringbuffer_spsc the cursor moves only in the step that ends the copy, by
\* exactly the call's length, and a call that returns leaves its cursor at
\* the value it started at plus its length.
CursorOwnership ==
    [][/\ \A t \in Writers :
            Steps(t) => /\ out_' = out_
                        /\ real_out_' = real_out_
                        /\ variant = "spsc" => real_in_' = real_in_
       /\ \A t \in Readers :
            Steps(t) => /\ in_' = in_
                        /\ real_in_' = real_in_
                        /\ buffer_' = buffer_
                        /\ variant = "spsc" => real_out_' = real_out_
       /\ (in_' # in_ \/ real_in_' # real_in_) => \E t \in Writers : Steps(t)
       /\ (out_' # out_ \/ real_out_' # real_out_) => \E t \in Readers : Steps(t)
       /\ buffer_' # buffer_ => (proc = "start" \/ \E t \in Writers : Steps(t))
       /\ variant = "spsc" =>
            /\ in_' # in_ =>
                 /\ th[SpscWriter].pc = "copy" /\ th'[SpscWriter].pc # "copy"
                 /\ in_' = in_ + th[SpscWriter].len
            /\ out_' # out_ =>
                 /\ th[SpscReader].pc = "copy" /\ th'[SpscReader].pc # "copy"
                 /\ out_' = out_ + th[SpscReader].len
            /\ \A w \in wdone' \ wdone : in_' = w.start + w.len
            /\ \A r \in rdone' \ rdone : out_' = r.start + r.len]_vars

\* ringbuffer_spsc in Spinning mode: the writer is in the middle of copying
\* its second chunk while the reader is in the middle of copying the first
CursorOwnershipWitness ==
    /\ variant = "spsc" /\ ~enable_cv_
    /\ th[SpscWriter].pc = "copy" /\ th[SpscWriter].idx > 0
    /\ th[SpscWriter].idx < th[SpscWriter].len
    /\ th[SpscReader].pc = "copy" /\ th[SpscReader].idx > 0
    /\ th[SpscReader].idx < th[SpscReader].len
    /\ wdone # {}

====
